---- MODULE Spec2Model ----
(***************************************************************************)
(* Conversation store, request orchestration hooks and transport client   *)
(* of the DevDocs chat front end.                                          *)
(*                                                                         *)
(* A JavaScript string is a sequence of one-character strings, so that     *)
(* trim, includes and concatenation are computed as the code computes      *)
(* them.  An optional value (T | null | undefined) is <<>> when absent and *)
(* <<v>> when present.                                                     *)
(***************************************************************************)
EXTENDS Integers, Sequences, FiniteSets, TLC

VARIABLES
    store,          \* the zustand store's state (chat-store)
    aborted,        \* AbortControllers whose signal has been aborted
    calls,          \* backend calls issued through the transport client
    uploadedFiles,  \* ChatInput: the pending attachments
    nAccepted,      \* submissions that passed sendMessage / generateCode's guard
    messageViews,   \* Message components: their feedback state, by message
    feedbackCalls,  \* feedback calls issued through the transport client
    lastOp          \* the handler that ran last, with what it was given

feedbackVars == <<messageViews, feedbackCalls>>

vars == <<store, aborted, calls, uploadedFiles, nAccepted, feedbackVars, lastOp>>

---------------------------------------------------------------------------
(* Bounds of the model *)

MaxRequests == 2    \* submissions accepted in one conversation
DeepRequests == 3   \* submissions accepted in one long conversation
InputRequests == 1  \* submissions accepted in a conversation with attachments
MaxFiles == 1       \* pending attachments held by the chat input
UiFrameworks == 1   \* frameworks the user toggles while chatting
MaxMessages == 2    \* messages appended through the bare store API
ApiFrameworks == 3  \* frameworks toggled through the bare store API
MaxControllers == 2 \* controllers installed through the bare store API
MaxExchanges == 6   \* answered exchanges a conversation starts with
EnvelopeRequests == 1 \* submissions made through the hooks on top of them
SidebarRequests == 1 \* submissions accepted between the sidebar's clicks
FeedbackRequests == 1 \* submissions accepted in a conversation with feedback
MaxFeedbackCalls == 2 \* feedback calls issued in it
MaxClock == 2       \* instants Date.now() can return, in milliseconds from the first

---------------------------------------------------------------------------
(* Optional values and strings *)

None == <<>>
Some(x) == <<x>>
IsSome(o) == o # <<>>
Get(o) == o[1]

IsSpace(c) == c \in {" ", "\n", "\t"}

RECURSIVE TrimStart(_)
TrimStart(s) ==
    IF s # <<>> /\ IsSpace(Head(s)) THEN TrimStart(Tail(s)) ELSE s

RECURSIVE TrimEnd(_)
TrimEnd(s) ==
    IF s # <<>> /\ IsSpace(s[Len(s)]) THEN TrimEnd(SubSeq(s, 1, Len(s) - 1)) ELSE s

Trim(s) == TrimEnd(TrimStart(s))

Includes(s, sub) ==
    \E i \in 1..(Len(s) - Len(sub) + 1) : SubSeq(s, i, i + Len(sub) - 1) = sub

StartsWith(s, pre) ==
    Len(s) >= Len(pre) /\ SubSeq(s, 1, Len(pre)) = pre

RECURSIVE Join(_, _)
Join(strs, sep) ==
    IF strs = <<>> THEN <<>>
    ELSE IF Len(strs) = 1 THEN strs[1]
    ELSE strs[1] \o sep \o Join(Tail(strs), sep)

Digits == <<"0", "1", "2", "3", "4", "5", "6", "7", "8", "9">>

RECURSIVE NumberToString(_)
NumberToString(n) ==
    IF n < 10 THEN <<Digits[n + 1]>>
    ELSE NumberToString(n \div 10) \o <<Digits[(n % 10) + 1]>>

---------------------------------------------------------------------------
(* types/api: the supported frameworks *)

SUPPORTED_FRAMEWORKS ==
    <<"react", "nextjs", "tailwind", "fastapi", "django", "postgresql", "typescript">>

Min(a, b) == IF a < b THEN a ELSE b

FirstFrameworks(n) ==
    {SUPPORTED_FRAMEWORKS[i] : i \in 1..Min(n, Len(SUPPORTED_FRAMEWORKS))}

---------------------------------------------------------------------------
(* chat-store: the store's state and its operations, as functions of the   *)
(* state record                                                            *)

InitialStore ==
    [messages |-> <<>>,
     selectedFrameworks |-> <<"react", "nextjs", "typescript">>,
     mode |-> "documentation",
     isLoading |-> FALSE,
     error |-> None,
     abortController |-> 0,
     includeDocsContext |-> TRUE,
     hasHydrated |-> FALSE]

\* A message as addMessage stores it.  req is the submission that appended
\* it (0 for a message appended directly); it stands for the identity of the
\* message and is read by no operation.
NewMessage(partial, req) ==
    [role |-> partial.role,
     content |-> partial.content,
     sources |-> None,
     trace_id |-> None,
     isGenerating |-> partial.isGenerating,
     req |-> req]

addMessageInFront(s, partial, req) ==
    [s EXCEPT !.messages = <<NewMessage(partial, req)>> \o @]

addMessage(s, partial, req) ==
    [s EXCEPT !.messages = Append(@, NewMessage(partial, req))]

\* { ...messages[lastIndex], ...update }
MergeMessage(msg, update) ==
    [f \in DOMAIN msg \cup DOMAIN update |->
        IF f \in DOMAIN update THEN update[f] ELSE msg[f]]

updateEveryMessage(s, update) ==
    [s EXCEPT !.messages = [i \in 1..Len(@) |-> MergeMessage(@[i], update)]]

updateLastMessage(s, update) ==
    LET lastIndex == Len(s.messages)
    IN  IF lastIndex >= 1
        THEN [s EXCEPT !.messages[lastIndex] = MergeMessage(@, update)]
        ELSE s

clearMessagesAndStop(s) ==
    [s EXCEPT !.messages = <<>>, !.isLoading = FALSE, !.abortController = 0]

clearMessages(s) == [s EXCEPT !.messages = <<>>]

SeqIncludes(seq, x) == \E i \in 1..Len(seq) : seq[i] = x

RECURSIVE FilterOut(_, _)
FilterOut(seq, x) ==
    IF seq = <<>> THEN <<>>
    ELSE IF Head(seq) = x THEN FilterOut(Tail(seq), x)
    ELSE <<Head(seq)>> \o FilterOut(Tail(seq), x)

toggleFrameworkUnguarded(s, framework) ==
    IF SeqIncludes(s.selectedFrameworks, framework)
    THEN [s EXCEPT !.selectedFrameworks = FilterOut(@, framework)]
    ELSE [s EXCEPT !.selectedFrameworks = Append(@, framework)]

toggleFramework(s, framework) ==
    LET frameworks == s.selectedFrameworks
        exists == SeqIncludes(frameworks, framework)
    IN  IF exists
        THEN IF Len(frameworks) = 1
             THEN s
             ELSE [s EXCEPT !.selectedFrameworks = FilterOut(frameworks, framework)]
        ELSE [s EXCEPT !.selectedFrameworks = Append(frameworks, framework)]

setFrameworks(s, frameworks) ==
    IF Len(frameworks) = 0 THEN s
    ELSE [s EXCEPT !.selectedFrameworks = frameworks]

setMode(s, mode) == [s EXCEPT !.mode = mode]

setIsLoading(s, loading) == [s EXCEPT !.isLoading = loading]

setError(s, error) == [s EXCEPT !.error = error]

setAbortController(s, controller) == [s EXCEPT !.abortController = controller]

setIncludeDocsContext(s, include) == [s EXCEPT !.includeDocsContext = include]

setHasHydrated(s, state) == [s EXCEPT !.hasHydrated = state]

stopGenerationAlwaysClears(s) ==
    [s EXCEPT !.abortController = 0, !.isLoading = FALSE]

\* stopGeneration's effect on the store
stopGenerationKeepsHandle(s) ==
    IF s.abortController # 0 THEN [s EXCEPT !.isLoading = FALSE] ELSE s

stopGeneration(s) ==
    IF s.abortController # 0
    THEN [s EXCEPT !.abortController = 0, !.isLoading = FALSE]
    ELSE s

\* stopGeneration's effect on the signals: abortController.abort()
stopGenerationAborts(s, ab) ==
    IF s.abortController # 0 THEN ab \cup {s.abortController} ELSE ab

---------------------------------------------------------------------------
(* chat-store: what the persist middleware keeps in localStorage           *)

partializeWithoutMode(s) ==
    [selectedFrameworks |-> s.selectedFrameworks,
     includeDocsContext |-> s.includeDocsContext]

partialize(s) ==
    [selectedFrameworks |-> s.selectedFrameworks,
     mode |-> s.mode,
     includeDocsContext |-> s.includeDocsContext]

\* JSON text is kept as the JSON values it denotes
JsonString(text) == [json |-> "string", value |-> text]
JsonBoolean(b) == [json |-> "boolean", value |-> b]
JsonArray(items) == [json |-> "array", value |-> items]
JsonObject(fields) == [json |-> "object", value |-> fields]

\* JSON.stringify of the kept fields: an array of strings, a string, a boolean
JsonStringify(kept) ==
    JsonObject([f \in DOMAIN kept |->
        IF f = "selectedFrameworks"
        THEN JsonArray([i \in 1..Len(kept[f]) |-> JsonString(kept[f][i])])
        ELSE IF f = "mode" THEN JsonString(kept[f])
        ELSE JsonBoolean(kept[f])])

RECURSIVE JsonParse(_)
JsonParse(j) ==
    IF j.json \in {"string", "boolean", "number"} THEN j.value
    ELSE [k \in DOMAIN j.value |-> JsonParse(j.value[k])]

\* the item the middleware writes after every set
StorageItem(s) ==
    JsonObject([state |-> JsonStringify(partialize(s)),
                version |-> [json |-> "number", value |-> 0]])

\* persist's default merge: { ...currentState, ...persistedState }
merge(persistedState, currentState) == MergeMessage(currentState, persistedState)

---------------------------------------------------------------------------
(* api-client: the rejections the HTTP library hands to the response       *)
(* interceptor, by the fields the interceptor reads                        *)

\* the "detail" of an error body: absent, or a text
BadInput == Some(<<"b","a","d"," ","i","n","p","u","t">>)
TxAborted == Some(<<"t","x"," ","a","b","o","r","t","e","d">>)

AxiosHttpError(status, detail) ==
    [name |-> "AxiosError",
     message |-> <<"R","e","q","u","e","s","t"," ","f","a","i","l","e","d"," ","w","i",
       "t","h"," ","s","t","a","t","u","s"," ","c","o","d","e"," ">> \o NumberToString(status),
     response |-> Some([status |-> status, detail |-> detail]),
     request |-> TRUE]

AxiosNetworkError ==
    [name |-> "AxiosError", message |-> <<"N","e","t","w","o","r","k"," ","E","r","r","o","r">>,
     response |-> None, request |-> TRUE]

\* the request outlived apiClient's timeout of 180000 ms
AxiosTimeoutError ==
    [name |-> "AxiosError", message |-> <<"t","i","m","e","o","u","t"," ","o","f"," ","1","8","0","0","0","0",
       "m","s"," ","e","x","c","e","e","d","e","d">>,
     response |-> None, request |-> TRUE]

\* the signal was aborted; the error carries the request when it had been sent
AxiosCanceledError(sent) ==
    [name |-> "CanceledError", message |-> <<"c","a","n","c","e","l","e","d">>,
     response |-> None, request |-> sent]

\* the rejections of a call that was sent and not cancelled
Failures ==
    {AxiosHttpError(422, BadInput), AxiosHttpError(422, TxAborted),
     AxiosHttpError(500, None), AxiosHttpError(404, None),
     AxiosHttpError(503, None), AxiosNetworkError, AxiosTimeoutError}

NewError(message) == [name |-> "Error", message |-> message]

Rethrown(error) == [name |-> error.name, message |-> error.message]

ResponseErrorInterceptorRethrows(error) == Rethrown(error)

\* what the response interceptor's error handler throws
ResponseErrorInterceptor(error) ==
    IF IsSome(error.response)
    THEN LET status == Get(error.response).status
             detail == Get(error.response).detail
             message == IF IsSome(detail) /\ Get(detail) # <<>>
                        THEN Get(detail) ELSE error.message
         IN  IF status = 422 THEN NewError(<<"V","a","l","i","d","a","t","i","o","n"," ","e","r","r","o","r",":",
       " ">> \o message)
             ELSE IF status = 500 THEN NewError(<<"S","e","r","v","e","r"," ","e","r","r","o","r",":"," ">> \o message)
             ELSE IF status = 404 THEN NewError(<<"E","n","d","p","o","i","n","t"," ","n","o","t"," ","f","o","u","n",
       "d">>)
             ELSE Rethrown(error)
    ELSE IF error.request
         THEN NewError(<<"N","o"," ","r","e","s","p","o","n","s","e"," ","f","r","o","m"," ",
       "s","e","r","v","e","r","."," ","P","l","e","a","s","e"," ","c","h",
       "e","c","k"," ","y","o","u","r"," ","c","o","n","n","e","c","t","i",
       "o","n",".">>)
         ELSE Rethrown(error)

\* JSON.stringify(frameworks) and JSON.stringify(history) of the form fields
JsonFrameworks(frameworks) ==
    JsonArray([i \in 1..Len(frameworks) |-> JsonString(frameworks[i])])

JsonHistory(history) ==
    JsonArray([i \in 1..Len(history) |->
        JsonObject([role |-> JsonString(history[i].role),
                    content |-> JsonString(history[i].content)])])

\* apiClient.post(url, data, config), by what the claims read of it
Post(url, data, contentType, files, signal) ==
    [url |-> url, contentType |-> contentType, data |-> data,
     files |-> files, signal |-> signal]

\* api.chat
chat(request, signal) ==
    Post("/api/chat", request, "application/json", <<>>, signal)

chatAlwaysJson(message, frameworks, history, files, signal) ==
    chat([message |-> message, frameworks |-> frameworks, history |-> history],
         signal)

\* api.chatWithFiles; files is absent (None) or a list
chatWithFiles(message, frameworks, history, files, signal) ==
    IF ~IsSome(files) \/ Len(Get(files)) = 0
    THEN chat([message |-> message, frameworks |-> frameworks,
               history |-> history], signal)
    ELSE Post("/api/chat/upload",
              [message |-> message,
               frameworks |-> JsonFrameworks(frameworks),
               history |-> JsonHistory(history)],
              "multipart/form-data", Get(files), signal)

\* api.generateCode
generateCode(request, signal) ==
    Post("/api/generate", request, "application/json", <<>>, signal)

\* api.generateCodeWithFiles
generateCodeWithFiles(prompt, frameworks, history, includeDocsContext, files, signal) ==
    IF ~IsSome(files) \/ Len(Get(files)) = 0
    THEN generateCode([prompt |-> prompt, frameworks |-> frameworks,
                       history |-> history,
                       include_docs_context |-> includeDocsContext], signal)
    ELSE Post("/api/generate/upload",
              [prompt |-> prompt,
               frameworks |-> JsonFrameworks(frameworks),
               history |-> JsonHistory(history),
               include_docs_context |->
                   IF includeDocsContext THEN "true" ELSE "false"],
              "multipart/form-data", Get(files), signal)

\* the bodies of successful responses
ChatResponses ==
    {[response |-> <<"U","s","e"," ","u","s","e","S","t","a","t","e">>, sources |-> <<"s1">>, trace_id |-> Some("trace-1")]}

CodeResponses ==
    {[code |-> <<"c","o","n","s","t"," ","x"," ","="," ","1">>, trace_id |-> Some("trace-2")]}

Responses(hook) == IF hook = "chat" THEN ChatResponses ELSE CodeResponses

---------------------------------------------------------------------------
(* use-chat: useChat ("chat") and useCodeGeneration ("code")               *)

Hooks == {"chat", "code"}

StoppedNotice(hook) ==
    IF hook = "chat" THEN <<"G","e","n","e","r","a","t","i","o","n"," ","s","t","o","p","p","e",
       "d",".">> ELSE <<"C","o","d","e"," ","g","e","n","e","r","a","t","i","o","n"," ","s",
       "t","o","p","p","e","d",".">>

FailureNotice(hook) ==
    IF hook = "chat"
    THEN <<"S","o","r","r","y",","," ","I"," ","e","n","c","o","u","n","t","e",
       "r","e","d"," ","a","n"," ","e","r","r","o","r","."," ","P","l","e",
       "a","s","e"," ","t","r","y"," ","a","g","a","i","n",".">>
    ELSE <<"S","o","r","r","y",","," ","I"," ","e","n","c","o","u","n","t","e",
       "r","e","d"," ","a","n"," ","e","r","r","o","r"," ","g","e","n","e",
       "r","a","t","i","n","g"," ","c","o","d","e","."," ","P","l","e","a",
       "s","e"," ","t","r","y"," ","a","g","a","i","n",".">>

IsCancellation(error) ==
    error.name = "CanceledError" \/ Includes(error.message, <<"a","b","o","r","t">>)

UserContentWithoutNote(message, files) == message

UserContent(message, files) ==
    IF Len(files) > 0
    THEN LET fileNames == Join([i \in 1..Len(files) |-> files[i].name], <<","," ">>)
         IN  IF message # <<>>
             THEN message \o <<"\n","\n","[","A","t","t","a","c","h","e","d"," ","f","i","l","e","s",
       ":"," ">> \o fileNames \o <<"]">>
             ELSE <<"[","A","t","t","a","c","h","e","d"," ","f","i","l","e","s",":"," ">> \o fileNames \o <<"]">>
    ELSE message

\* messages.slice(-10)
HISTORY_LENGTH == 10

HistoryFromTheStart(messages) ==
    [i \in 1..Min(Len(messages), HISTORY_LENGTH) |->
        [role |-> messages[i].role, content |-> messages[i].content]]

\* messages.slice(-10).map((msg) => ({ role: msg.role, content: msg.content }))
History(messages) ==
    LET n == Len(messages)
        first == IF n > HISTORY_LENGTH THEN n - HISTORY_LENGTH + 1 ELSE 1
    IN  [i \in 1..(n - first + 1) |->
            [role |-> messages[first + i - 1].role,
             content |-> messages[first + i - 1].content]]

\* the arguments mutationFn hands to api.chatWithFiles ("chat") or
\* api.generateCodeWithFiles ("code"); s is the store the hook last rendered
\* with, the one the submission started from
RequestEnvelope(hook, s, message, files) ==
    [message |-> message,
     frameworks |-> s.selectedFrameworks,
     history |-> History(s.messages),
     include_docs_context |-> IF hook = "code" THEN Some(s.includeDocsContext) ELSE None,
     files |-> files]

\* the call of the transport client that ends mutationFn
ApiCall(hook, envelope, files, signal) ==
    IF hook = "chat"
    THEN chatWithFiles(envelope.message, envelope.frameworks,
                       envelope.history, files, signal)
    ELSE generateCodeWithFiles(envelope.message, envelope.frameworks,
                               envelope.history,
                               Get(envelope.include_docs_context), files, signal)

mutationFnWithoutPlaceholder(s, message, files, controller) ==
    addMessage(setAbortController(s, controller),
               [role |-> "user", content |-> UserContent(message, files),
                isGenerating |-> None], controller)

\* mutationFn up to the call of the transport client
mutationFn(s, message, files, controller) ==
    LET s1 == setAbortController(s, controller)
        s2 == addMessage(s1, [role |-> "user",
                              content |-> UserContent(message, files),
                              isGenerating |-> None], controller)
    IN  addMessage(s2, [role |-> "assistant", content |-> <<>>,
                        isGenerating |-> Some(TRUE)], controller)

SuccessUpdate(hook, data) ==
    IF hook = "chat"
    THEN [content |-> data.response, sources |-> Some(data.sources),
          trace_id |-> data.trace_id, isGenerating |-> Some(FALSE)]
    ELSE [content |-> data.code, trace_id |-> data.trace_id,
          isGenerating |-> Some(FALSE)]

onSuccess(s, hook, data) ==
    setAbortController(setError(updateLastMessage(s, SuccessUpdate(hook, data)), None), 0)

onError(s, hook, error) ==
    LET s1 == IF IsCancellation(error)
              THEN updateLastMessage(s, [content |-> StoppedNotice(hook),
                                         isGenerating |-> Some(FALSE)])
              ELSE setError(
                       updateLastMessage(s, [content |-> FailureNotice(hook),
                                             isGenerating |-> Some(FALSE)]),
                       Some(error.message))
    IN  setAbortController(s1, 0)

onSettledKeepsLoading(s) == setAbortController(s, 0)

onSettled(s) == setAbortController(setIsLoading(s, FALSE), 0)

\* sendMessage / generateCode: the guard
SendAcceptsAnything(message, files) == TRUE

SendAccepted(message, files) == ~(Trim(message) = <<>> /\ Len(files) = 0)

\* sendMessage / generateCode past the guard, mutationFn included
sendMessage(s, message, files, controller) ==
    mutationFn(setError(setIsLoading(s, TRUE), None), message, files, controller)

NewCall(hook) == [hook |-> hook, phase |-> "queued"]

\* the transport call mutationFn makes: one per run of mutationFn
IssueCall(cs, hook) == Append(cs, NewCall(hook))

SettleAndRetry(cs, c) ==
    Append([cs EXCEPT ![c].phase = "done"], NewCall(cs[c].hook))

\* the call's promise has settled and the mutation's callbacks have run;
\* useMutation is given no retry option
SettleCall(cs, c) == [cs EXCEPT ![c].phase = "done"]

---------------------------------------------------------------------------
(* chat-input: the input box, its attachments                              *)

MAX_FILE_SIZE == 10 * 1024 * 1024

SmallFile == [name |-> <<"a",".","t","s">>, size |-> MAX_FILE_SIZE]
LargeFile == [name |-> <<"b",".","p","d","f">>, size |-> MAX_FILE_SIZE + 1]

\* the extensions joined into the file input's accept attribute, which
\* tells the file picker what to offer; no handler reads it
ACCEPTED_FILE_TYPES ==
    <<<<".","t","x","t">>, <<".","m","d">>, <<".","j","s","o","n">>, <<".","j","s">>, <<".","t","s">>, <<".","t","s","x">>, <<".","j","s","x">>,
      <<".","p","y">>, <<".","c","s","s">>, <<".","h","t","m","l">>, <<".","x","m","l">>, <<".","y","a","m","l">>, <<".","y","m","l">>,
      <<".","c","s","v">>, <<".","p","d","f">>>>

\* a file the picker returns when the user leaves its filter
OtherFile == [name |-> <<"c",".","e","x","e">>, size |-> 1]

\* what one use of the file picker can return
Selections == {<<SmallFile>>, <<LargeFile>>, <<SmallFile, LargeFile>>, <<OtherFile>>}

\* what the user types
Inputs == {<<>>, <<" ">>, <<"h","i">>}

\* chat-interface: an example prompt
EXAMPLE_PROMPTS == {<<"W","h","a","t"," ","i","s"," ","u","s","e","S","t","a","t","e"," ",
       "i","n"," ","R","e","a","c","t","?">>}

AcceptsEveryFile(files) == files

RECURSIVE AcceptedFiles(_)
AcceptedFiles(files) ==
    IF files = <<>> THEN <<>>
    ELSE IF Head(files).size > MAX_FILE_SIZE THEN AcceptedFiles(Tail(files))
    ELSE <<Head(files)>> \o AcceptedFiles(Tail(files))

HydratedFromTheStart == TRUE

\* useHydration, seen after the component has mounted
Hydrated == store.hasHydrated

---------------------------------------------------------------------------
(* The handler that ran last *)

Op(name) ==
    [name |-> name, call |-> 0, hook |-> "", accepted |-> FALSE,
     aborted |-> FALSE, hadHandle |-> FALSE,
     raw |-> None, thrown |-> None, data |-> None, arg |-> None,
     request |-> None, before |-> None, twice |-> None]

\* the files argument of sendMessage / generateCode: the example prompts
\* call them with the text alone, the input box always passes a list
FilesArgument(opname, files) ==
    IF opname = "examplePrompt" THEN None ELSE Some(files)

HookOf(mode) == IF mode = "documentation" THEN "chat" ELSE "code"

Live(c) == calls[c].phase # "done" /\ c \notin aborted

---------------------------------------------------------------------------
(* The application: what the user and the network can do *)

Init ==
    /\ store = InitialStore
    /\ aborted = {}
    /\ calls = <<>>
    /\ uploadedFiles = <<>>
    /\ nAccepted = 0
    /\ messageViews = <<>>
    /\ feedbackCalls = <<>>
    /\ lastOp = Op("init")

\* persist's onRehydrateStorage callback
OnRehydrateStorage ==
    /\ ~store.hasHydrated
    /\ store' = setHasHydrated(store, TRUE)
    /\ lastOp' = Op("onRehydrateStorage")
    /\ UNCHANGED <<feedbackVars, aborted, calls, uploadedFiles, nAccepted>>

\* the upload button is disabled while loading or not hydrated
HandleFileSelect(files) ==
    /\ Hydrated /\ ~store.isLoading
    /\ Len(uploadedFiles \o AcceptedFiles(files)) <= MaxFiles
    /\ uploadedFiles' = uploadedFiles \o AcceptedFiles(files)
    /\ lastOp' = [Op("handleFileSelect") EXCEPT !.arg = Some(files)]
    /\ UNCHANGED <<feedbackVars, store, aborted, calls, nAccepted>>

RemoveFile(index) ==
    /\ uploadedFiles' = [i \in 1..(Len(uploadedFiles) - 1) |->
                            IF i < index THEN uploadedFiles[i] ELSE uploadedFiles[i + 1]]
    /\ lastOp' = Op("input")
    /\ UNCHANGED <<feedbackVars, store, aborted, calls, nAccepted>>

\* sendMessage (hook "chat") or generateCode (hook "code"), then mutationFn
Send(hook, message, files, opname) ==
    IF SendAccepted(message, files)
    THEN /\ store' = sendMessage(store, message, files, Len(calls) + 1)
         /\ calls' = IssueCall(calls, hook)
         /\ nAccepted' = nAccepted + 1
         /\ lastOp' = [Op(opname) EXCEPT
                          !.accepted = TRUE, !.hook = hook,
                          !.call = Len(calls) + 1,
                          !.arg = Some(RequestEnvelope(hook, store, message, files)),
                          !.request = Some(ApiCall(hook,
                              RequestEnvelope(hook, store, message, files),
                              FilesArgument(opname, files), Len(calls) + 1))]
         /\ UNCHANGED <<feedbackVars, aborted>>
    ELSE /\ lastOp' = [Op(opname) EXCEPT
                          !.hook = hook,
                          !.arg = Some([message |-> message, files |-> files])]
         /\ UNCHANGED <<feedbackVars, store, aborted, calls, nAccepted>>

\* the send button and the Enter key, with input the textarea's text
HandleSubmit(input, limit) ==
    /\ Len(calls) < limit
    /\ IF (Trim(input) = <<>> /\ Len(uploadedFiles) = 0)
            \/ store.isLoading \/ ~Hydrated
       THEN /\ lastOp' = [Op("handleSubmit") EXCEPT
                             !.arg = Some([message |-> input, files |-> uploadedFiles])]
            /\ UNCHANGED <<feedbackVars, store, aborted, calls, uploadedFiles, nAccepted>>
       ELSE /\ uploadedFiles' = <<>>
            /\ Send(HookOf(store.mode), Trim(input), uploadedFiles, "handleSubmit")

\* an example prompt; the prompts are shown while the conversation is empty
ExamplePromptClick(text, limit) ==
    /\ Len(calls) < limit
    /\ Hydrated /\ Len(store.messages) = 0
    /\ IF store.isLoading
       THEN /\ lastOp' = Op("examplePrompt")
            /\ UNCHANGED <<feedbackVars, store, aborted, calls, nAccepted>>
       ELSE Send(HookOf(store.mode), text, <<>>, "examplePrompt")
    /\ UNCHANGED uploadedFiles

\* the stop button, shown in place of the send button while loading
HandleStop ==
    /\ Hydrated /\ store.isLoading
    /\ store' = stopGeneration(store)
    /\ aborted' = stopGenerationAborts(store, aborted)
    /\ lastOp' = [Op("stopGeneration") EXCEPT
                     !.hadHandle = (store.abortController # 0),
                     !.call = store.abortController]
    /\ UNCHANGED <<feedbackVars, calls, uploadedFiles, nAccepted>>

\* the sidebar's New Chat button, disabled while the conversation is empty
NewChat ==
    /\ Hydrated /\ Len(store.messages) > 0
    /\ store' = clearMessages(store)
    /\ lastOp' = Op("clearMessages")
    /\ UNCHANGED <<feedbackVars, aborted, calls, uploadedFiles, nAccepted>>

SelectMode(mode) ==
    /\ Hydrated
    /\ mode # store.mode
    /\ store' = setMode(store, mode)
    /\ lastOp' = Op("input")
    /\ UNCHANGED <<feedbackVars, aborted, calls, uploadedFiles, nAccepted>>

ClickFramework(framework) ==
    /\ Hydrated
    /\ store' = toggleFramework(store, framework)
    /\ lastOp' = [Op("toggleFramework") EXCEPT !.arg = Some(framework)]
    /\ UNCHANGED <<feedbackVars, aborted, calls, uploadedFiles, nAccepted>>

ToggleDocsContext ==
    /\ Hydrated
    /\ store' = setIncludeDocsContext(store, ~store.includeDocsContext)
    /\ lastOp' = Op("setIncludeDocsContext")
    /\ UNCHANGED <<feedbackVars, aborted, calls, uploadedFiles, nAccepted>>

\* the request passes the request interceptor and is sent
Dispatch(c) ==
    /\ calls[c].phase = "queued"
    /\ c \notin aborted
    /\ calls' = [calls EXCEPT ![c].phase = "sent"]
    /\ lastOp' = [Op("dispatch") EXCEPT !.call = c]
    /\ UNCHANGED <<feedbackVars, store, aborted, uploadedFiles, nAccepted>>

\* the response arrives: onSuccess, then onSettled
SettleSuccess(c, data) ==
    /\ calls[c].phase = "sent"
    /\ c \notin aborted
    /\ store' = onSettled(onSuccess(store, calls[c].hook, data))
    /\ calls' = SettleCall(calls, c)
    /\ lastOp' = [Op("onSuccess") EXCEPT !.call = c, !.hook = calls[c].hook,
                                         !.data = Some(data)]
    /\ UNCHANGED <<feedbackVars, aborted, uploadedFiles, nAccepted>>

\* the call is rejected with error: the interceptor, onError, then onSettled
Reject(c, error) ==
    LET thrown == ResponseErrorInterceptor(error)
    IN  /\ store' = onSettled(onError(store, calls[c].hook, thrown))
        /\ calls' = SettleCall(calls, c)
        /\ lastOp' = [Op("onError") EXCEPT !.call = c, !.hook = calls[c].hook,
                                           !.aborted = (c \in aborted),
                                           !.raw = Some(error),
                                           !.thrown = Some(thrown)]
        /\ UNCHANGED <<feedbackVars, aborted, uploadedFiles, nAccepted>>

\* an error status, no response, or the timeout
SettleFailure(c, error) ==
    /\ calls[c].phase = "sent"
    /\ c \notin aborted
    /\ Reject(c, error)

\* the rejection of a call whose signal was aborted
SettleCancelled(c) ==
    /\ calls[c].phase # "done"
    /\ c \in aborted
    /\ Reject(c, AxiosCanceledError(calls[c].phase = "sent"))

Network ==
    \E c \in 1..Len(calls) :
        \/ Dispatch(c)
        \/ \E data \in Responses(calls[c].hook) : SettleSuccess(c, data)
        \/ \E error \in Failures : SettleFailure(c, error)
        \/ SettleCancelled(c)

\* a conversation of at most limit submissions
Conversation(limit) ==
    \/ OnRehydrateStorage
    \/ \E input \in Inputs : HandleSubmit(input, limit)
    \/ \E text \in EXAMPLE_PROMPTS : ExamplePromptClick(text, limit)
    \/ HandleStop
    \/ NewChat
    \/ \E mode \in {"documentation", "code-generation"} : SelectMode(mode)
    \/ Network

Next == Conversation(MaxRequests)

Spec == Init /\ [][Next]_vars

NextDeep == Conversation(DeepRequests)

SpecDeep == Init /\ [][NextDeep]_vars

\* every issued call is answered, fails, times out or is cancelled
FairSpec == Spec /\ WF_vars(Network)

---------------------------------------------------------------------------
(* The store's message, flag and controller operations, called in any      *)
(* order                                                                   *)

Partials ==
    {[role |-> "user", content |-> <<"h","i">>, isGenerating |-> None],
     [role |-> "assistant", content |-> <<>>, isGenerating |-> Some(TRUE)]}

Updates ==
    {[content |-> <<"o","k">>, isGenerating |-> Some(FALSE)],
     [trace_id |-> Some("trace-1")]}

Before == Some([store |-> store, aborted |-> aborted])

ApiAddMessage(partial) ==
    /\ Len(store.messages) < MaxMessages
    /\ store' = addMessage(store, partial, 0)
    /\ lastOp' = [Op("addMessage") EXCEPT !.arg = Some(partial), !.before = Before]
    /\ UNCHANGED <<feedbackVars, aborted, calls, uploadedFiles, nAccepted>>

ApiUpdateLastMessage(update) ==
    /\ store' = updateLastMessage(store, update)
    /\ lastOp' = [Op("updateLastMessage") EXCEPT !.arg = Some(update), !.before = Before]
    /\ UNCHANGED <<feedbackVars, aborted, calls, uploadedFiles, nAccepted>>

ApiClearMessages ==
    /\ store' = clearMessages(store)
    /\ lastOp' = [Op("clearMessages") EXCEPT !.before = Before]
    /\ UNCHANGED <<feedbackVars, aborted, calls, uploadedFiles, nAccepted>>

ApiSetIsLoading(loading) ==
    /\ store' = setIsLoading(store, loading)
    /\ lastOp' = Op("setIsLoading")
    /\ UNCHANGED <<feedbackVars, aborted, calls, uploadedFiles, nAccepted>>

ApiSetError(error) ==
    /\ store' = setError(store, error)
    /\ lastOp' = Op("setError")
    /\ UNCHANGED <<feedbackVars, aborted, calls, uploadedFiles, nAccepted>>

ApiSetAbortController(controller) ==
    /\ store' = setAbortController(store, controller)
    /\ lastOp' = Op("setAbortController")
    /\ UNCHANGED <<feedbackVars, aborted, calls, uploadedFiles, nAccepted>>

ApiStopGeneration ==
    /\ store' = stopGeneration(store)
    /\ aborted' = stopGenerationAborts(store, aborted)
    /\ lastOp' = [Op("stopGeneration") EXCEPT
                     !.hadHandle = (store.abortController # 0),
                     !.call = store.abortController,
                     !.before = Before]
    /\ UNCHANGED <<feedbackVars, calls, uploadedFiles, nAccepted>>

NextStore ==
    \/ \E partial \in Partials : ApiAddMessage(partial)
    \/ \E update \in Updates : ApiUpdateLastMessage(update)
    \/ ApiClearMessages
    \/ \E loading \in BOOLEAN : ApiSetIsLoading(loading)
    \/ \E error \in {None, Some(<<"E","n","d","p","o","i","n","t"," ","n","o","t"," ","f","o","u","n",
       "d">>)} : ApiSetError(error)
    \/ \E controller \in 0..MaxControllers : ApiSetAbortController(controller)
    \/ ApiStopGeneration

SpecStore == Init /\ [][NextStore]_vars

---------------------------------------------------------------------------
(* The store's settings operations, called in any order *)

\* arguments of setFrameworks: any Framework[], which need not be free of
\* repetitions
FrameworkLists == {<<>>, <<"react">>, <<"django", "react">>, <<"react", "react">>}

ApiToggleFramework(framework) ==
    /\ store' = toggleFramework(store, framework)
    /\ lastOp' = [Op("toggleFramework") EXCEPT
                     !.arg = Some(framework),
                     !.before = Before,
                     \* the store before the previous call, when that call
                     \* toggled the same framework
                     !.twice = IF lastOp.name = "toggleFramework"
                                  /\ lastOp.arg = Some(framework)
                               THEN lastOp.before ELSE None]
    /\ UNCHANGED <<feedbackVars, aborted, calls, uploadedFiles, nAccepted>>

ApiSetFrameworks(frameworks) ==
    /\ store' = setFrameworks(store, frameworks)
    /\ lastOp' = [Op("setFrameworks") EXCEPT !.arg = Some(frameworks),
                                             !.before = Before]
    /\ UNCHANGED <<feedbackVars, aborted, calls, uploadedFiles, nAccepted>>

ApiSetMode(mode) ==
    /\ store' = setMode(store, mode)
    /\ lastOp' = Op("setMode")
    /\ UNCHANGED <<feedbackVars, aborted, calls, uploadedFiles, nAccepted>>

ApiSetIncludeDocsContext(include) ==
    /\ store' = setIncludeDocsContext(store, include)
    /\ lastOp' = Op("setIncludeDocsContext")
    /\ UNCHANGED <<feedbackVars, aborted, calls, uploadedFiles, nAccepted>>

NextSettings ==
    \/ \E framework \in FirstFrameworks(ApiFrameworks) : ApiToggleFramework(framework)
    \/ \E frameworks \in FrameworkLists : ApiSetFrameworks(frameworks)
    \/ \E mode \in {"documentation", "code-generation"} : ApiSetMode(mode)
    \/ \E include \in BOOLEAN : ApiSetIncludeDocsContext(include)

SpecSettings == Init /\ [][NextSettings]_vars

---------------------------------------------------------------------------
(* The chat input with its attachments *)

NextInput ==
    \/ Conversation(InputRequests)
    \/ \E files \in Selections : HandleFileSelect(files)
    \/ \E index \in 1..Len(uploadedFiles) : RemoveFile(index)
    \/ \E framework \in FirstFrameworks(UiFrameworks) : ClickFramework(framework)
    \/ ToggleDocsContext

SpecInput == Init /\ [][NextInput]_vars

---------------------------------------------------------------------------
(* The sidebar's settings, page reloads and submissions *)

\* the frameworks the user clicks: the preselected ones
SidebarFrameworks == {"react", "nextjs", "typescript"}

\* The page is loaded again: the store is created anew and the stored item
\* is merged into it; what belonged to the old page (its calls, its input)
\* is gone.  onRehydrateStorage's callback follows.
Restart ==
    /\ store' = merge(JsonParse(StorageItem(store)).state, InitialStore)
    /\ aborted' = {}
    /\ calls' = <<>>
    /\ uploadedFiles' = <<>>
    /\ nAccepted' = 0
    /\ messageViews' = <<>>
    /\ feedbackCalls' = <<>>
    /\ lastOp' = [Op("restart") EXCEPT
                     !.arg = Some([hadMessages |-> store.messages # <<>>,
                                   wasLoading |-> store.isLoading])]

NextSidebar ==
    \/ Conversation(SidebarRequests)
    \/ \E framework \in SidebarFrameworks : ClickFramework(framework)
    \/ ToggleDocsContext
    \/ Restart

SpecSidebar == Init /\ [][NextSidebar]_vars

---------------------------------------------------------------------------
(* addMessage with the id and the timestamp it assigns.  The other         *)
(* specifications leave both out (req stands for the identity there),      *)
(* because no operation reads them.                                        *)

\* Math.random().toString(36).substr(2, 9): what is left of "0" (random 0)
\* and of "0.i" (random 0.5)
RandomSuffixes == {<<>>, <<"i">>}

\* `msg-${Date.now()}-${Math.random().toString(36).substr(2, 9)}`
MessageId(now, suffix) == <<"m","s","g","-">> \o NumberToString(now) \o <<"-">> \o suffix

\* { ...message, id, timestamp: new Date() }
StampedMessage(partial, now, suffix) ==
    MergeMessage(NewMessage(partial, 0),
                 [id |-> MessageId(now, suffix), timestamp |-> now])

addStampedMessage(s, partial, now, suffix) ==
    [s EXCEPT !.messages = Append(@, StampedMessage(partial, now, suffix))]

\* the clock does not run backwards: a reading is not earlier than the
\* readings taken for the messages in the store
ClockReadings(s) ==
    {now \in 0..MaxClock :
        \A i \in 1..Len(s.messages) : s.messages[i].timestamp <= now}

ApiAppend(partial, now, suffix) ==
    /\ Len(store.messages) < MaxMessages
    /\ store' = addStampedMessage(store, partial, now, suffix)
    /\ lastOp' = [Op("addMessage") EXCEPT !.arg = Some(partial), !.before = Before]
    /\ UNCHANGED <<feedbackVars, aborted, calls, uploadedFiles, nAccepted>>

NextAppend ==
    \/ \E partial \in Partials : \E now \in ClockReadings(store) :
          \E suffix \in RandomSuffixes : ApiAppend(partial, now, suffix)
    \/ \E update \in Updates : ApiUpdateLastMessage(update)

SpecAppend == Init /\ [][NextAppend]_vars

---------------------------------------------------------------------------
(* The hooks on top of a conversation of any length: sendMessage and       *)
(* generateCode called as the hooks export them, and the chat input        *)

\* the store after k exchanges that were answered, in documentation mode
RECURSIVE StoreAfter(_)
StoreAfter(k) ==
    IF k = 0 THEN setHasHydrated(InitialStore, TRUE)
    ELSE LET asked == sendMessage(StoreAfter(k - 1), NumberToString(k), <<>>, 0)
             data == CHOOSE r \in ChatResponses : TRUE
         IN  onSettled(onSuccess(asked, "chat", data))

FileLists == {<<>>, <<SmallFile>>, <<SmallFile, OtherFile>>}

InitEnvelope ==
    /\ \E k \in 0..MaxExchanges :
          \E mode \in {"documentation", "code-generation"} :
              store = setMode(StoreAfter(k), mode)
    /\ aborted = {}
    /\ calls = <<>>
    /\ uploadedFiles = <<>>
    /\ nAccepted = 0
    /\ messageViews = <<>>
    /\ feedbackCalls = <<>>
    /\ lastOp = Op("init")

CallSendMessage(message, files) ==
    /\ Len(calls) < EnvelopeRequests
    /\ Send("chat", message, files, "sendMessage")
    /\ UNCHANGED uploadedFiles

CallGenerateCode(prompt, files) ==
    /\ Len(calls) < EnvelopeRequests
    /\ Send("code", prompt, files, "generateCode")
    /\ UNCHANGED uploadedFiles

NextEnvelope ==
    \/ \E message \in Inputs : \E files \in FileLists : CallSendMessage(message, files)
    \/ \E prompt \in Inputs : \E files \in FileLists : CallGenerateCode(prompt, files)
    \/ \E input \in Inputs : HandleSubmit(input, EnvelopeRequests)
    \/ \E text \in EXAMPLE_PROMPTS : ExamplePromptClick(text, EnvelopeRequests)
    \/ Network

SpecEnvelope == InitEnvelope /\ [][NextEnvelope]_vars

---------------------------------------------------------------------------
(* message: the Message component's feedback buttons, and useFeedback      *)

\* the React key of a message's component; the id is unique per appended
\* message here, the request and the role stand for it
MessageKey(msg) == <<msg.req, msg.role>>

Mounted(key) == \E i \in 1..Len(store.messages) : MessageKey(store.messages[i]) = key

\* a component as it mounts: useState(null), an idle mutation, and what its
\* first render shows
InitialView ==
    [feedback |-> None, mutation |-> 0,
     shown |-> [submittingFeedback |-> FALSE, feedback |-> None]]

View(key) == IF key \in DOMAIN messageViews THEN messageViews[key] ELSE InitialView

WithView(views, key, view) ==
    [k \in DOMAIN views \cup {key} |-> IF k = key THEN view ELSE views[k]]

\* mutation.isPending of the component's useFeedback
IsPending(view) ==
    view.mutation # 0 /\ feedbackCalls[view.mutation].phase = "pending"

\* what a render of the component gives its handlers and buttons
Rendered(view) ==
    [submittingFeedback |-> IsPending(view), feedback |-> view.feedback]

\* handleFeedback's guard, on the values of the render the handler belongs to
FeedbackRefused(msg, shown) ==
    ~IsSome(msg.trace_id) \/ shown.submittingFeedback \/ shown.feedback # None

\* a click on thumbs up or thumbs down of message i: handleFeedback up to
\* the call of api.submitFeedback
HandleFeedback(i, value) ==
    LET msg == store.messages[i]
        key == MessageKey(msg)
        view == View(key)
    IN  /\ Len(feedbackCalls) < MaxFeedbackCalls
        /\ IF FeedbackRefused(msg, view.shown)
           THEN /\ lastOp' = [Op("handleFeedback") EXCEPT !.arg = Some(key)]
                /\ UNCHANGED feedbackVars
           ELSE /\ feedbackCalls' = Append(feedbackCalls,
                       [message |-> key, trace_id |-> msg.trace_id,
                        value |-> value, phase |-> "pending"])
                /\ messageViews' = WithView(messageViews, key,
                       [view EXCEPT !.mutation = Len(feedbackCalls) + 1])
                /\ lastOp' = [Op("handleFeedback") EXCEPT
                                 !.arg = Some(key),
                                 !.call = Len(feedbackCalls) + 1]
        /\ UNCHANGED <<store, aborted, calls, uploadedFiles, nAccepted>>

\* React renders the component again after its state or its mutation changed
RenderMessage(key) ==
    /\ Mounted(key)
    /\ View(key).shown # Rendered(View(key))
    /\ messageViews' = WithView(messageViews, key,
           [View(key) EXCEPT !.shown = Rendered(View(key))])
    /\ lastOp' = [Op("render") EXCEPT !.arg = Some(key)]
    /\ UNCHANGED <<store, aborted, calls, uploadedFiles, nAccepted, feedbackCalls>>

\* the feedback call succeeds: handleFeedback goes on with setFeedback(value)
FeedbackSucceeds(k) ==
    LET key == feedbackCalls[k].message IN
    /\ feedbackCalls[k].phase = "pending"
    /\ feedbackCalls' = [feedbackCalls EXCEPT ![k].phase = "success"]
    /\ messageViews' =
          IF Mounted(key)
          THEN WithView(messageViews, key,
                   [View(key) EXCEPT !.feedback = Some(feedbackCalls[k].value)])
          ELSE messageViews
    /\ lastOp' = [Op("feedbackSuccess") EXCEPT !.arg = Some(key)]
    /\ UNCHANGED <<store, aborted, calls, uploadedFiles, nAccepted>>

\* the feedback call fails: handleFeedback's catch logs the error
FeedbackFails(k) ==
    /\ feedbackCalls[k].phase = "pending"
    /\ feedbackCalls' = [feedbackCalls EXCEPT ![k].phase = "error"]
    /\ lastOp' = [Op("feedbackError") EXCEPT !.arg = Some(feedbackCalls[k].message)]
    /\ UNCHANGED <<store, aborted, calls, uploadedFiles, nAccepted, messageViews>>

NextFeedback ==
    \/ Conversation(FeedbackRequests)
    \/ \E i \in 1..Len(store.messages) :
          \E value \in {"positive", "negative"} : HandleFeedback(i, value)
    \/ \E i \in 1..Len(store.messages) : RenderMessage(MessageKey(store.messages[i]))
    \/ \E k \in 1..Len(feedbackCalls) : FeedbackSucceeds(k)
    \/ \E k \in 1..Len(feedbackCalls) : FeedbackFails(k)

SpecFeedback == Init /\ [][NextFeedback]_vars

---------------------------------------------------------------------------
(* Properties *)

LastMessage == store.messages[Len(store.messages)]

Settled == lastOp.name \in {"onSuccess", "onError"}

\* the placeholders the submission c appended that are still in the sequence
PlaceholdersOf(c) ==
    {i \in 1..Len(store.messages) :
        store.messages[i].req = c /\ store.messages[i].role = "assistant"}

\* C1: the rejection of a call that stop generation aborted is handled as a
\* cancellation: onError takes the cancellation branch, the last message
\* becomes the "stopped" notice with isGenerating false, and the error slot
\* does not receive the rejection's message.
C1_AbortIsCancellation ==
    (lastOp.name = "onError" /\ lastOp.aborted) =>
        /\ IsCancellation(Get(lastOp.thrown))
        /\ store.error # Some(Get(lastOp.thrown).message)
        /\ Len(store.messages) > 0 =>
              /\ LastMessage.content = StoppedNotice(lastOp.hook)
              /\ LastMessage.isGenerating = Some(FALSE)

\* C2: at most one backend call is in flight at any time: no submission is
\* accepted while a call that was issued and not cancelled has not completed.
C2_AtMostOneInFlight ==
    Cardinality({c \in 1..Len(calls) : Live(c)}) <= 1

\* C3: every failure of a call that the user did not cancel puts the fixed
\* failure notice in the last message, clears isGenerating and records the
\* error's message in the error slot.
C3_FailureIsReported ==
    (lastOp.name = "onError" /\ ~lastOp.aborted) =>
        /\ store.error = Some(Get(lastOp.thrown).message)
        /\ Len(store.messages) > 0 =>
              /\ LastMessage.content = FailureNotice(lastOp.hook)
              /\ LastMessage.isGenerating = Some(FALSE)

\* C4: the store's abortController is null or the handle of the single live
\* request, and every request that is neither cancelled nor completed has
\* its handle in the store.
C4_HandleOfTheLiveRequest ==
    /\ store.abortController # 0 =>
          /\ store.abortController \in 1..Len(calls)
          /\ Live(store.abortController)
    /\ \A c \in 1..Len(calls) : Live(c) => store.abortController = c

\* C5: the selected framework set is never empty, and toggling off the sole
\* selected framework or setFrameworks([]) leaves the whole store unchanged.
C5_SelectionNeverEmpty ==
    /\ Len(store.selectedFrameworks) >= 1
    /\ (lastOp.name = "toggleFramework"
          /\ Get(lastOp.before).store.selectedFrameworks = <<Get(lastOp.arg)>>)
       => store = Get(lastOp.before).store
    /\ (lastOp.name = "setFrameworks" /\ Get(lastOp.arg) = <<>>)
       => store = Get(lastOp.before).store

\* C6: every accepted submission's call eventually settles, whatever the
\* outcome (success, cancellation or failure), and in the state its
\* completion callbacks leave the loading flag is false and the cancellation
\* handle is null.  A settled call stays settled, so "eventually settles" is
\* "is not pending forever".
C6_SettledClearsLoadingAndHandle ==
    /\ [](Settled => /\ calls[lastOp.call].phase = "done"
                      /\ ~store.isLoading
                      /\ store.abortController = 0)
    /\ \A c \in 1..MaxRequests :
          []<>(Len(calls) < c \/ calls[c].phase = "done")

C6_Witness ==
    /\ lastOp.name = "onError" /\ lastOp.aborted
    /\ \A c \in 1..Len(calls) : calls[c].phase = "done"
    /\ Len(calls) = 2
    /\ ~store.isLoading /\ store.abortController = 0

\* C7: when a request completes successfully and its placeholder is still
\* in the sequence, the placeholder holds the returned answer or code, the
\* trace id, the citations in Q&A mode only, isGenerating false, and the
\* error slot is none.
C7_SuccessFillsThePlaceholder ==
    lastOp.name = "onSuccess" =>
        /\ store.error = None
        /\ \A i \in PlaceholdersOf(lastOp.call) :
              LET m == store.messages[i]
                  data == Get(lastOp.data)
              IN  /\ m.isGenerating = Some(FALSE)
                  /\ m.trace_id = data.trace_id
                  /\ IF lastOp.hook = "chat"
                     THEN m.content = data.response /\ m.sources = Some(data.sources)
                     ELSE m.content = data.code /\ m.sources = None

\* C8: when the backend answers with status 422, the last message becomes
\* the fixed failure notice with isGenerating false and the error slot holds
\* a string that begins with "Validation error".
C8_ValidationErrorIsReported ==
    (/\ lastOp.name = "onError"
     /\ IsSome(Get(lastOp.raw).response)
     /\ Get(Get(lastOp.raw).response).status = 422)
    =>  /\ IsSome(store.error)
        /\ StartsWith(Get(store.error), <<"V","a","l","i","d","a","t","i","o","n"," ","e","r","r","o","r">>)
        /\ Len(store.messages) > 0 =>
              /\ LastMessage.content = FailureNotice(lastOp.hook)
              /\ LastMessage.isGenerating = Some(FALSE)

\* C9: stopGeneration with a handle present aborts that handle and sets
\* abortController to null and isLoading to false, changing nothing else in
\* the store; with no handle present it changes nothing, the loading flag
\* included.
C9_StopGeneration ==
    lastOp.name = "stopGeneration" =>
        LET before == Get(lastOp.before)
        IN  IF before.store.abortController # 0
            THEN /\ aborted = before.aborted \cup {before.store.abortController}
                 /\ store.abortController = 0
                 /\ ~store.isLoading
                 /\ \A f \in DOMAIN store \ {"abortController", "isLoading"} :
                       store[f] = before.store[f]
            ELSE /\ store = before.store
                 /\ aborted = before.aborted

C9_Witness ==
    /\ lastOp.name = "stopGeneration"
    /\ ~lastOp.hadHandle
    /\ store.isLoading
    /\ store.messages # <<>>
    /\ aborted # {}

\* C10: no request is retried: every backend call was issued by an accepted
\* submission, one call for each, also after failed and cancelled requests.
C10_NoAutomaticRetry == Len(calls) = nAccepted

C10_Witness ==
    /\ lastOp.name = "onError"
    /\ Len(calls) = 2
    /\ calls[1].phase = "done"
    /\ calls[2].phase = "done"
    /\ nAccepted = 2

\* C11: a submit whose text is empty or only white space and that carries
\* no attachments changes nothing: loading flag, error slot, cancellation
\* handle and messages stay as they were and no backend call is issued,
\* whether it comes through the chat input or through the hooks.
C11_BlankSubmitIsRejected ==
    [][(/\ lastOp'.name \in {"handleSubmit", "sendMessage", "generateCode"}
        /\ Trim(Get(lastOp'.arg).message) = <<>>
        /\ Get(lastOp'.arg).files = <<>>)
       => (/\ ~lastOp'.accepted
           /\ store' = store
           /\ calls' = calls
           /\ aborted' = aborted)]_vars

C11_Witness ==
    /\ lastOp.name = "generateCode"
    /\ ~lastOp.accepted
    /\ Get(lastOp.arg).message = <<" ">>
    /\ Len(store.messages) > 0
    /\ calls = <<>>

EndsWith(s, suffix) ==
    Len(s) >= Len(suffix) /\ SubSeq(s, Len(s) - Len(suffix) + 1, Len(s)) = suffix

HasAcceptedType(file) ==
    \E i \in 1..Len(ACCEPTED_FILE_TYPES) : EndsWith(file.name, ACCEPTED_FILE_TYPES[i])

\* C13: a selected file larger than 10 MB never enters the pending
\* attachments and is never handed to the transport client; selecting files
\* changes no message and issues no call; every selected file of at most
\* 10 MB, one of exactly 10 MB included, is added to the pending attachments.
C13_OversizedFileIsRejected ==
    [][/\ \A i \in 1..Len(uploadedFiles') : uploadedFiles'[i].size <= 10 * 1024 * 1024
       /\ lastOp'.accepted =>
             \A i \in 1..Len(Get(lastOp'.arg).files) :
                 Get(lastOp'.arg).files[i].size <= 10 * 1024 * 1024
       /\ lastOp'.name = "handleFileSelect" =>
             /\ store' = store
             /\ calls' = calls
             /\ uploadedFiles' = uploadedFiles \o
                    SelectSeq(Get(lastOp'.arg), LAMBDA f : f.size <= 10 * 1024 * 1024)]_vars

C13_Witness ==
    /\ lastOp.name = "handleFileSelect"
    /\ Get(lastOp.arg) = <<SmallFile, LargeFile>>
    /\ uploadedFiles = <<SmallFile>>
    /\ SmallFile.size = 10 * 1024 * 1024
    /\ LargeFile.size > 10 * 1024 * 1024

\* C14: a file whose extension is outside the allow-list is never among
\* the files handed to sendMessage / generateCode and on to the transport
\* client.
C14_OnlyAcceptedTypesAreSent ==
    lastOp.accepted =>
        \A i \in 1..Len(Get(lastOp.arg).files) :
            HasAcceptedType(Get(lastOp.arg).files[i])

\* which message this is: the submission that appended it, and its role
MessageIdentity(msg) == <<msg.req, msg.role>>

\* C15: right after a submission the last two messages are its user message
\* and then its placeholder (empty content, isGenerating true), behind the
\* messages that were there before; and no step reorders messages: the
\* sequence is emptied, or the messages it held stay at their positions.
C15_PlaceholderLastAndOrderKept ==
    [][/\ lastOp'.accepted =>
             LET n == Len(store'.messages)
             IN  /\ n = Len(store.messages) + 2
                 /\ MessageIdentity(store'.messages[n - 1]) = <<lastOp'.call, "user">>
                 /\ MessageIdentity(store'.messages[n]) = <<lastOp'.call, "assistant">>
                 /\ store'.messages[n].content = <<>>
                 /\ store'.messages[n].isGenerating = Some(TRUE)
                 /\ SubSeq(store'.messages, 1, n - 2) = store.messages
       /\ \/ store'.messages = <<>>
          \/ /\ Len(store'.messages) >= Len(store.messages)
             /\ \A i \in 1..Len(store.messages) :
                   MessageIdentity(store'.messages[i]) = MessageIdentity(store.messages[i])]_vars

C15_Witness ==
    /\ lastOp.accepted /\ lastOp.call = 2
    /\ Len(store.messages) = 4
    /\ MessageIdentity(store.messages[1]) = <<1, "user">>
    /\ MessageIdentity(store.messages[4]) = <<2, "assistant">>
    /\ store.messages[2].content # <<>>

\* C16: updateLastMessage changes nothing when there is no message;
\* otherwise the final message takes the given fields and keeps its others,
\* and the length, every earlier message and the rest of the store stay as
\* they were.
C16_UpdateLastMessage ==
    lastOp.name = "updateLastMessage" =>
        LET before == Get(lastOp.before).store
            update == Get(lastOp.arg)
            n == Len(before.messages)
        IN  IF n = 0
            THEN store = before
            ELSE /\ Len(store.messages) = n
                 /\ \A i \in 1..(n - 1) : store.messages[i] = before.messages[i]
                 /\ \A f \in DOMAIN update : store.messages[n][f] = update[f]
                 /\ \A f \in DOMAIN before.messages[n] \ DOMAIN update :
                       store.messages[n][f] = before.messages[n][f]
                 /\ \A f \in DOMAIN store \ {"messages"} : store[f] = before[f]

C16_Witness ==
    /\ lastOp.name = "updateLastMessage"
    /\ Len(Get(lastOp.before).store.messages) = 2
    /\ Get(lastOp.arg) = [content |-> <<"o","k">>, isGenerating |-> Some(FALSE)]
    /\ store.messages[1].content = <<"h","i">>
    /\ store.messages[2].content = <<"o","k">>
    /\ store.messages[2].role = "user"

\* C18: clearMessages empties the message sequence whatever its length, also
\* while a request is in flight, and leaves selected frameworks, mode,
\* context-inclusion flag, loading flag, error slot and cancellation handle
\* as they were, without aborting anything.
C18_ClearMessages ==
    lastOp.name = "clearMessages" =>
        LET before == Get(lastOp.before)
        IN  /\ store.messages = <<>>
            /\ \A f \in DOMAIN store \ {"messages"} : store[f] = before.store[f]
            /\ aborted = before.aborted

C18_Witness ==
    /\ lastOp.name = "clearMessages"
    /\ Len(Get(lastOp.before).store.messages) = 2
    /\ store.isLoading
    /\ store.abortController # 0
    /\ IsSome(store.error)

\* C17: addMessage appends exactly one message at the end, keeps the
\* messages before it, and gives the new message an id that no earlier
\* message has and a timestamp not earlier than theirs.
C17_AppendAssignsFreshId ==
    lastOp.name = "addMessage" =>
        LET before == Get(lastOp.before).store.messages
            n == Len(store.messages)
        IN  /\ n = Len(before) + 1
            /\ SubSeq(store.messages, 1, n - 1) = before
            /\ \A i \in 1..(n - 1) :
                  /\ store.messages[n].id # store.messages[i].id
                  /\ store.messages[n].timestamp >= store.messages[i].timestamp

\* C19: a restart keeps selectedFrameworks, mode and includeDocsContext and
\* nothing else: after it the messages are empty, isLoading is false, error
\* is none and abortController is null; the rehydration callback that
\* follows only sets the hydration flag.
C19_PersistedSubsetRoundTrips ==
    [][/\ lastOp'.name = "restart" =>
             /\ store'.selectedFrameworks = store.selectedFrameworks
             /\ store'.mode = store.mode
             /\ store'.includeDocsContext = store.includeDocsContext
             /\ store'.messages = <<>>
             /\ ~store'.isLoading
             /\ store'.error = None
             /\ store'.abortController = 0
       /\ lastOp'.name = "onRehydrateStorage" =>
             \A f \in DOMAIN store \ {"hasHydrated"} : store'[f] = store[f]]_vars

C19_Witness ==
    /\ lastOp.name = "restart"
    /\ Get(lastOp.arg).hadMessages
    /\ Get(lastOp.arg).wasLoading
    /\ store.mode = "code-generation"
    /\ store.selectedFrameworks = <<"typescript", "react">>
    /\ ~store.includeDocsContext
    /\ store.messages = <<>>

\* C20: every request handed to the transport client carries at least one
\* framework, and only frameworks of the seven supported ones, whatever
\* the framework clicks, restarts and submissions before it.
C20_EnvelopeFrameworks ==
    lastOp.accepted =>
        LET frameworks == Get(lastOp.arg).frameworks
        IN  /\ Len(frameworks) >= 1
            /\ \A i \in 1..Len(frameworks) :
                  \E j \in 1..7 : frameworks[i] = SUPPORTED_FRAMEWORKS[j]
            /\ Len(SUPPORTED_FRAMEWORKS) = 7

C20_Witness ==
    /\ lastOp.accepted
    /\ Get(lastOp.arg).frameworks = <<"typescript">>
    /\ store.selectedFrameworks = <<"typescript">>
    /\ calls # <<>>

\* the texts the response interceptor puts into its errors
ValidationPrefix == <<"V","a","l","i","d","a","t","i","o","n"," ","e","r","r","o","r",":",
       " ">>
ServerPrefix == <<"S","e","r","v","e","r"," ","e","r","r","o","r",":"," ">>
EndpointNotFound == <<"E","n","d","p","o","i","n","t"," ","n","o","t"," ","f","o","u","n",
       "d">>
NoResponse == <<"N","o"," ","r","e","s","p","o","n","s","e"," ","f","r","o","m"," ",
       "s","e","r","v","e","r","."," ","P","l","e","a","s","e"," ","c","h",
       "e","c","k"," ","y","o","u","r"," ","c","o","n","n","e","c","t","i",
       "o","n",".">>

\* the kind of a rejection, by what the HTTP library reports about it
FailureKind(error) ==
    IF IsSome(error.response)
    THEN CASE Get(error.response).status = 422 -> "validation"
           [] Get(error.response).status = 500 -> "server"
           [] Get(error.response).status = 404 -> "routing"
           [] OTHER -> "other"
    ELSE IF error.request THEN "connectivity" ELSE "other"

\* C21: the transport client raises a 422 response as a validation failure,
\* a 500 as a server failure, a 404 as a routing failure and a request
\* without response, the timeout included, as a connectivity failure; the
\* messages of two different kinds differ.
C21_FailuresAreClassified ==
    /\ lastOp.name = "onError" =>
          LET raw == Get(lastOp.raw)
              message == Get(lastOp.thrown).message
              kind == FailureKind(raw)
          IN  /\ Get(lastOp.thrown).name = "Error" \/ kind = "other"
              /\ kind = "validation" => StartsWith(message, ValidationPrefix)
              /\ kind = "server" => StartsWith(message, ServerPrefix)
              /\ kind = "routing" => message = EndpointNotFound
              /\ kind = "connectivity" => message = NoResponse
    /\ \A e1, e2 \in Failures :
          (FailureKind(e1) # FailureKind(e2)
              /\ FailureKind(e1) # "other" /\ FailureKind(e2) # "other")
          => ResponseErrorInterceptor(e1).message # ResponseErrorInterceptor(e2).message

C21_Witness ==
    /\ lastOp.name = "onError"
    /\ Get(lastOp.raw) = AxiosTimeoutError
    /\ Get(lastOp.thrown).message = NoResponse
    /\ store.error = Some(Get(lastOp.thrown).message)

\* C22: a submission without files is posted as JSON to /api/chat or
\* /api/generate, one with files as multipart form data to /api/chat/upload
\* or /api/generate/upload with every attached file in its order; in both
\* cases the request carries the signal of the controller that the
\* submission installed.
C22_EndpointByAttachments ==
    lastOp.accepted =>
        LET request == Get(lastOp.request)
            envelope == Get(lastOp.arg)
            isChat == lastOp.hook = "chat"
        IN  /\ request.signal = lastOp.call
            /\ request.signal = store.abortController
            /\ IF Len(envelope.files) = 0
               THEN /\ request.url = IF isChat THEN "/api/chat" ELSE "/api/generate"
                    /\ request.contentType = "application/json"
                    /\ request.files = <<>>
                    /\ request.data.frameworks = envelope.frameworks
                    /\ request.data.history = envelope.history
               ELSE /\ request.url = IF isChat THEN "/api/chat/upload"
                                     ELSE "/api/generate/upload"
                    /\ request.contentType = "multipart/form-data"
                    /\ request.files = envelope.files
                    /\ JsonParse(request.data.frameworks) = envelope.frameworks
                    /\ JsonParse(request.data.history) = envelope.history

C22_Witness ==
    /\ lastOp.accepted
    /\ lastOp.hook = "code"
    /\ Len(Get(lastOp.arg).files) = 2
    /\ Len(Get(lastOp.arg).history) = HISTORY_LENGTH
    /\ Get(lastOp.request).url = "/api/generate/upload"
    /\ Get(lastOp.request).files = <<SmallFile, OtherFile>>

\* the note that lists the names of files, in their order
AttachmentNote(files) ==
    <<"[","A","t","t","a","c","h","e","d"," ","f","i","l","e","s",":"," ">>
        \o Join([i \in 1..Len(files) |-> files[i].name], <<","," ">>) \o <<"]">>

\* C23: the user message that a submission appends has as content the
\* typed text followed by the note listing the attached file names in
\* attachment order when files are attached, the note alone when the text is
\* empty, and exactly the text when no file is attached.
C23_UserContent ==
    lastOp.accepted =>
        LET envelope == Get(lastOp.arg)
            user == store.messages[Len(store.messages) - 1]
            note == AttachmentNote(envelope.files)
        IN  /\ user.role = "user"
            /\ user.req = lastOp.call
            /\ IF Len(envelope.files) = 0 THEN user.content = envelope.message
               ELSE IF envelope.message = <<>> THEN user.content = note
               ELSE /\ StartsWith(user.content, envelope.message)
                    /\ EndsWith(user.content, note)
                    /\ Len(user.content) >= Len(envelope.message) + Len(note)

C23_Witness ==
    /\ lastOp.accepted
    /\ Get(lastOp.arg).message = <<"h","i">>
    /\ Get(lastOp.arg).files = <<SmallFile, OtherFile>>
    /\ store.messages[Len(store.messages) - 1].content =
          <<"h","i","\n","\n","[","A","t","t","a","c","h","e","d"," ","f","i","l",
       "e","s",":"," ","a",".","t","s",","," ","c",".","e","x","e","]">>

\* C24: the completion callbacks of a request (result, "stopped" notice or
\* failure notice) change no message other than the placeholder that this
\* same request appended, whatever submissions, stops and clears came
\* between the request and its completion.
C24_UpdateGoesToOwnPlaceholder ==
    [][lastOp'.name \in {"onSuccess", "onError"} =>
          /\ Len(store'.messages) = Len(store.messages)
          /\ \A i \in 1..Len(store.messages) :
                store'.messages[i] # store.messages[i] =>
                    /\ store.messages[i].role = "assistant"
                    /\ store.messages[i].req = lastOp'.call]_vars

\* C25: once every issued request has settled, no message of the sequence
\* is still generating.
C25_NoMessageGeneratesForever ==
    (\A c \in 1..Len(calls) : calls[c].phase = "done") =>
        \A i \in 1..Len(store.messages) :
            store.messages[i].isGenerating # Some(TRUE)

\* C26: in every reachable state a cancellation handle in the store implies
\* that the loading flag is set.
C26_HandleImpliesLoading ==
    store.abortController # 0 => store.isLoading

C26_Witness ==
    /\ store.abortController = 2
    /\ store.isLoading
    /\ lastOp.accepted
    /\ aborted = {1}
    /\ calls[1].phase # "done"

C28_ToggleTwiceRestores ==
    IsSome(lastOp.twice) =>
        LET S == Get(lastOp.twice).store.selectedFrameworks
            T == store.selectedFrameworks
        IN  /\ {T[i] : i \in 1..Len(T)} = {S[i] : i \in 1..Len(S)}
            /\ \A i, j \in 1..Len(T) : T[i] = T[j] => i = j

\* C29: feedback is sent only for a message that carries a trace id, never
\* while another feedback call for that message is pending, and at most one
\* feedback call per message succeeds.
C29_FeedbackOncePerMessage ==
    /\ \A k \in 1..Len(feedbackCalls) : IsSome(feedbackCalls[k].trace_id)
    /\ \A k1, k2 \in 1..Len(feedbackCalls) :
          (k1 # k2 /\ feedbackCalls[k1].message = feedbackCalls[k2].message) =>
              /\ ~(feedbackCalls[k1].phase = "pending"
                     /\ feedbackCalls[k2].phase = "pending")
              /\ ~(feedbackCalls[k1].phase = "success"
                     /\ feedbackCalls[k2].phase = "success")

\* C30: while the hydration flag is false a submit from the chat input
\* appends no message and issues no backend call, and no request at all is
\* accepted before the persisted settings are in the store.
C30_NoSubmitBeforeHydration ==
    /\ [](lastOp.accepted => store.hasHydrated)
    /\ [][(~store.hasHydrated /\ lastOp'.name = "handleSubmit") =>
             /\ store' = store
             /\ calls' = calls
             /\ ~lastOp'.accepted]_vars

C30_Witness ==
    /\ lastOp.name = "handleSubmit"
    /\ Get(lastOp.arg).message = <<"h","i">>
    /\ ~store.hasHydrated
    /\ store.mode = "code-generation"
    /\ store.selectedFrameworks = <<"typescript">>
    /\ calls = <<>>

====
